---- MODULE Spec2Model ----
(***************************************************************************)
(* A model of src/csharpClassParserBasic.ts: the two-pass class-dependency *)
(* analysis (parseClassDependencies), its registry, its resolver, the      *)
(* type-tree parser and the comment stripper.                              *)
(*                                                                         *)
(* JavaScript strings are TLA+ strings; the operators below keep the       *)
(* 0-based indices of the source and convert at the SubSeq calls.          *)
(***************************************************************************)
EXTENDS Integers, Sequences, FiniteSets, TLC

(***************************************************************************)
(* String primitives of the JavaScript runtime the source relies on.       *)
(***************************************************************************)

\* str[i]: the character at 0-based index i, "" (undefined) outside the string
charAt(str, i) ==
    IF i >= 0 /\ i < Len(str) THEN SubSeq(str, i + 1, i + 1) ELSE ""

\* str.substring(a, b) for 0 <= a <= b; b is clamped to the length
substring(str, a, b) ==
    SubSeq(str, a + 1, IF b > Len(str) THEN Len(str) ELSE b)

\* str.startsWith(search, index)
startsWith(str, search, index) ==
    /\ index >= 0
    /\ index + Len(search) <= Len(str)
    /\ SubSeq(str, index + 1, index + Len(search)) = search

RECURSIVE indexOfFrom(_, _, _)
\* str.indexOf(search, from)
indexOfFrom(str, search, from) ==
    IF from + Len(search) > Len(str) THEN -1
    ELSE IF startsWith(str, search, from) THEN from
    ELSE indexOfFrom(str, search, from + 1)

indexOf(str, search) == indexOfFrom(str, search, 0)

RECURSIVE lastIndexOfFrom(_, _, _)
\* str.lastIndexOf(search, from): the last occurrence starting at or before from
lastIndexOfFrom(str, search, from) ==
    IF from < 0 THEN -1
    ELSE IF startsWith(str, search, from) THEN from
    ELSE lastIndexOfFrom(str, search, from - 1)

lastIndexOf(str, search) == lastIndexOfFrom(str, search, Len(str) - Len(search))

includes(str, search) == indexOf(str, search) # -1

\* the characters \s matches among those the model's texts use
WhiteSpace == {" ", "\t", "\n", "\r"}

\* the characters \w matches
WordChars ==
    {"a","b","c","d","e","f","g","h","i","j","k","l","m","n","o","p","q","r",
     "s","t","u","v","w","x","y","z","A","B","C","D","E","F","G","H","I","J",
     "K","L","M","N","O","P","Q","R","S","T","U","V","W","X","Y","Z","0","1",
     "2","3","4","5","6","7","8","9","_"}

RECURSIVE trimStart(_)
trimStart(str) ==
    IF Len(str) > 0 /\ charAt(str, 0) \in WhiteSpace
    THEN trimStart(substring(str, 1, Len(str)))
    ELSE str

RECURSIVE trimEnd(_)
trimEnd(str) ==
    IF Len(str) > 0 /\ charAt(str, Len(str) - 1) \in WhiteSpace
    THEN trimEnd(substring(str, 0, Len(str) - 1))
    ELSE str

\* str.trim()
trim(str) == trimEnd(trimStart(str))

RECURSIVE split(_, _)
\* str.split(sep) for a non-empty separator: always at least one part
split(str, sep) ==
    LET i == indexOf(str, sep)
    IN  IF i = -1 THEN <<str>>
        ELSE <<substring(str, 0, i)>>
             \o split(substring(str, i + Len(sep), Len(str)), sep)

RECURSIVE join(_, _)
\* parts.join(sep)
join(parts, sep) ==
    IF Len(parts) = 0 THEN ""
    ELSE IF Len(parts) = 1 THEN parts[1]
    ELSE parts[1] \o sep \o join(Tail(parts), sep)

(***************************************************************************)
(* BRACKETS (lines 61-69) and the depth-aware scanner (lines 84-126,       *)
(* 671-689).                                                               *)
(***************************************************************************)
ANGLE == 1
ROUND == 2
BOX == 4
CURLY == 8
STRING_BIT == 16
CHAR_BIT == 32

\* brackets & bit
HasBit(brackets, bit) == (brackets \div bit) % 2 = 1

\* Math.abs(x - 1)
absMinusOne(x) == IF x - 1 < 0 THEN 1 - x ELSE x - 1

\* the depths array after bracketsToIncludes has looked at char
depthsAfter(current, brackets, char) ==
    LET angle == current[1]
                 + (IF HasBit(brackets, ANGLE) /\ char = "<" THEN 1 ELSE 0)
                 - (IF HasBit(brackets, ANGLE) /\ char = ">" THEN 1 ELSE 0)
        round == current[2]
                 + (IF HasBit(brackets, ROUND) /\ char = "(" THEN 1 ELSE 0)
                 - (IF HasBit(brackets, ROUND) /\ char = ")" THEN 1 ELSE 0)
        box   == current[3]
                 + (IF HasBit(brackets, BOX) /\ char = "[" THEN 1 ELSE 0)
                 - (IF HasBit(brackets, BOX) /\ char = "]" THEN 1 ELSE 0)
        curly == current[4]
                 + (IF HasBit(brackets, CURLY) /\ char = "{" THEN 1 ELSE 0)
                 - (IF HasBit(brackets, CURLY) /\ char = "}" THEN 1 ELSE 0)
        str   == IF HasBit(brackets, STRING_BIT) /\ char = "\""
                 THEN absMinusOne(current[5]) ELSE current[5]
        chr   == IF HasBit(brackets, CHAR_BIT) /\ char = "'"
                 THEN absMinusOne(current[6]) ELSE current[6]
    IN  <<angle, round, box, curly, str, chr>>

\* current.reduce((a, b) => a + b) === 0
depthsSumZero(current) ==
    current[1] + current[2] + current[3] + current[4] + current[5] + current[6] = 0

\* bracketsToIncludes: updates the depths with char, then tests their sum
bracketsToIncludes(current, brackets, char) ==
    depthsSumZero(depthsAfter(current, brackets, char))

RECURSIVE findNextLoop(_, _, _, _, _)
\* the for loop of findNext at position index with the depths so far; the
\* depths array is updated in place, so the next iteration gets its value
findNextLoop(str, search, ignore, index, depths) ==
    IF index >= Len(str) THEN -1
    ELSE LET char == charAt(str, index)
         IN  IF bracketsToIncludes(depths, ignore, char)
                /\ startsWith(str, search, index)
             THEN index
             ELSE CHOOSE found \in
                      {findNextLoop(str, search, ignore, index + 1, updated) :
                          updated \in {depthsAfter(depths, ignore, char)}} :
                      TRUE

findNext(str, search, ignore, startIndex) ==
    findNextLoop(str, search, ignore, startIndex, <<0, 0, 0, 0, 0, 0>>)

(***************************************************************************)
(* The two regular expressions of registerClassesFromFile (lines 267-276), *)
(* matched as the regular-expression engine matches them: leftmost first,  *)
(* every quantifier greedy.                                                *)
(***************************************************************************)
MAX_CLASS_NAME_LENGTH == 60

RECURSIVE runEnd(_, _, _, _)
\* the index after the longest run of at most max characters of chars at i
runEnd(str, i, chars, max) ==
    IF max > 0 /\ i < Len(str) /\ charAt(str, i) \in chars
    THEN runEnd(str, i + 1, chars, max - 1)
    ELSE i

\* [\w.]
NamespaceChars == WordChars \cup {"."}

\* /namespace\s+([\w.]+)/ tried at index i: <<matched, group 1, end of match>>
namespaceMatchAt(content, i) ==
    LET a == i + Len("namespace")
        b == runEnd(content, a, WhiteSpace, Len(content))
        c == runEnd(content, b, NamespaceChars, Len(content))
    IN  IF startsWith(content, "namespace", i) /\ b > a /\ c > b
        THEN <<TRUE, substring(content, b, c), c>>
        ELSE <<FALSE, "", i>>

RECURSIVE namespaceExec(_, _)
\* namespaceMatch ? namespaceMatch[1] : "" for the search starting at index i
namespaceExec(content, i) ==
    IF i >= Len(content) THEN ""
    ELSE LET m == namespaceMatchAt(content, i)
         IN  IF m[1] THEN m[2] ELSE namespaceExec(content, i + 1)

\* /\bclass\s+(\w{1,60})/ tried at index i: <<matched, group 1, end of match>>
classMatchAt(content, i) ==
    LET a == i + Len("class")
        b == runEnd(content, a, WhiteSpace, Len(content))
        c == runEnd(content, b, WordChars, MAX_CLASS_NAME_LENGTH)
    IN  IF /\ charAt(content, i - 1) \notin WordChars
           /\ startsWith(content, "class", i)
           /\ b > a
           /\ c > b
        THEN <<TRUE, substring(content, b, c), c>>
        ELSE <<FALSE, "", i>>

RECURSIVE classExecAll(_, _)
\* the group-1 captures of the successive classRegex.exec(content) calls of
\* line 279, the search resuming at lastIndex = i
classExecAll(content, i) ==
    IF i >= Len(content) THEN <<>>
    ELSE LET m == classMatchAt(content, i)
         IN  IF m[1] THEN <<m[2]>> \o classExecAll(content, m[3])
             ELSE classExecAll(content, i + 1)

(***************************************************************************)
(* The class registry: a Map<string, ClassInfo> (lines 70, 184-187).       *)
(***************************************************************************)
EmptyMap == <<>>

mapHas(map, key) == key \in DOMAIN map

\* map.set(key, value): the entry under key is replaced
mapSet(map, key, value) ==
    [k \in (DOMAIN map) \cup {key} |-> IF k = key THEN value ELSE map[k]]

\* registerClass with a registry that keeps the first entry under a key
registerClassKeepingFirst(classRegistry, className, namespace, projectName) ==
    LET info == [namespace |-> namespace, projectName |-> projectName]
        put(map, key) == IF mapHas(map, key) THEN map ELSE mapSet(map, key, info)
    IN  IF namespace # ""
        THEN put(put(classRegistry, className), namespace \o "." \o className)
        ELSE put(classRegistry, className)

\* lines 280-289: one iteration of the while loop, for the match className
registerClass(classRegistry, className, namespace, projectName) ==
    LET info == [namespace |-> namespace, projectName |-> projectName]
        bare == mapSet(classRegistry, className, info)
    IN  IF namespace # ""
        THEN mapSet(bare, namespace \o "." \o className, info)
        ELSE bare

RECURSIVE registerAll(_, _, _, _)
\* the while loop of lines 279-290 over the matches still to come
registerAll(classRegistry, classNames, namespace, projectName) ==
    IF classNames = <<>> THEN classRegistry
    ELSE registerAll(registerClass(classRegistry, Head(classNames), namespace,
                                   projectName),
                     Tail(classNames), namespace, projectName)

\* registerClassesFromFile: the registry it leaves
registerClassesFromFile(content, projectName, classRegistry) ==
    registerAll(classRegistry, classExecAll(content, 0),
                namespaceExec(content, 0), projectName)

(***************************************************************************)
(* The resolver (lines 405-563) and isPrimitiveType (lines 988-1033).      *)
(***************************************************************************)
\* the value of an expression that a regular expression without a capture
\* group leaves unset (classNameMatch[1], line 366)
UNDEFINED == "<undefined>"

\* a function's outcome: a returned value, or a TypeError thrown
Returned(value) == [threw |-> FALSE, value |-> value]
Threw == [threw |-> TRUE, value |-> <<>>]

\* the null a resolver function returns
Null == [isNull |-> TRUE]

primitiveTypes ==
    {"int", "string", "bool", "float", "double", "decimal", "char", "byte",
     "sbyte", "short", "ushort", "uint", "long", "ulong", "object", "dynamic",
     "var", "void", "this", "base", "DateTime", "return", "Guid", "TimeSpan",
     "Task", "List", "Dictionary", "IEnumerable", "IList", "IDictionary",
     "ICollection"}

\* isPrimitiveType for a string argument
isPrimitiveType(type) ==
    LET baseType == trim(split(type, "<")[1])
    IN  \/ baseType \in primitiveTypes
        \/ startsWith(baseType, "Action", 0)
        \/ startsWith(baseType, "Func", 0)
        \/ startsWith(baseType, "System.", 0)

\* resolveFullyQualifiedName looking the class up under its last segment
resolveFullyQualifiedNameByLastSegment(fullName, classRegistry) ==
    LET parts == split(fullName, ".")
        className == parts[Len(parts)]
        namespace == join(SubSeq(parts, 1, Len(parts) - 1), ".")
    IN  IF mapHas(classRegistry, className)
        THEN [className |-> className,
              namespace |-> classRegistry[className].namespace,
              projectName |-> classRegistry[className].projectName]
        ELSE [className |-> className,
              namespace |-> namespace,
              projectName |-> "external"]

\* resolveFullyQualifiedName (lines 493-517)
resolveFullyQualifiedName(fullName, classRegistry) ==
    LET parts == split(fullName, ".")
        className == parts[Len(parts)]
        namespace == join(SubSeq(parts, 1, Len(parts) - 1), ".")
    IN  IF mapHas(classRegistry, fullName)
        THEN [className |-> className,
              namespace |-> classRegistry[fullName].namespace,
              projectName |-> classRegistry[fullName].projectName]
        ELSE [className |-> className,
              namespace |-> namespace,
              projectName |-> "external"]

\* resolveWithNamespace that always qualifies the name, also with an empty
\* current namespace
resolveWithNamespaceAlwaysQualified(baseType, currentNamespace, classRegistry) ==
    LET fullName == currentNamespace \o "." \o baseType
    IN  IF ~mapHas(classRegistry, fullName) THEN Null
        ELSE [className |-> baseType,
              namespace |-> classRegistry[fullName].namespace,
              projectName |-> classRegistry[fullName].projectName]

\* resolveWithNamespace (lines 522-540)
resolveWithNamespace(baseType, currentNamespace, classRegistry) ==
    LET fullName == IF currentNamespace # ""
                    THEN currentNamespace \o "." \o baseType
                    ELSE baseType
    IN  IF ~mapHas(classRegistry, fullName) THEN Null
        ELSE [className |-> baseType,
              namespace |-> classRegistry[fullName].namespace,
              projectName |-> classRegistry[fullName].projectName]

RECURSIVE resolveWithImportsLastHit(_, _, _)
\* resolveWithImports taking the last import that declares the name
resolveWithImportsLastHit(baseType, imports, classRegistry) ==
    IF imports = <<>> THEN Null
    ELSE LET imp == imports[Len(imports)]
             qualifiedName == imp \o "." \o baseType
         IN  IF mapHas(classRegistry, qualifiedName)
             THEN [className |-> baseType,
                   namespace |-> imp,
                   projectName |-> classRegistry[qualifiedName].projectName]
             ELSE resolveWithImportsLastHit(
                      baseType, SubSeq(imports, 1, Len(imports) - 1),
                      classRegistry)

RECURSIVE resolveWithImports(_, _, _)
\* resolveWithImports (lines 545-563)
resolveWithImports(baseType, imports, classRegistry) ==
    IF imports = <<>> THEN Null
    ELSE LET imp == Head(imports)
             qualifiedName == imp \o "." \o baseType
         IN  IF mapHas(classRegistry, qualifiedName)
             THEN [className |-> baseType,
                   namespace |-> imp,
                   projectName |-> classRegistry[qualifiedName].projectName]
             ELSE resolveWithImports(baseType, Tail(imports), classRegistry)

\* resolveClassDependency (lines 451-488)
resolveClassDependency(baseType, currentNamespace, imports, classRegistry) ==
    IF includes(baseType, ".")
    THEN resolveFullyQualifiedName(baseType, classRegistry)
    ELSE LET fromCurrentNamespace ==
                 resolveWithNamespace(baseType, currentNamespace, classRegistry)
             fromImports == resolveWithImports(baseType, imports, classRegistry)
         IN  IF fromCurrentNamespace # Null THEN fromCurrentNamespace
             ELSE IF fromImports # Null THEN fromImports
             ELSE IF baseType # ""
             THEN [className |-> baseType,
                   namespace |-> "unknown",
                   projectName |-> "external"]
             ELSE Null

RECURSIVE resolveLoopWithoutSeenCheck(_, _, _, _, _, _)
\* resolveLoop without the resolved.has(baseType) test of line 428
resolveLoopWithoutSeenCheck(dependencies, resolved, resolvedDependencies, currentClassName, classRegistry, file) ==
    IF dependencies = <<>> THEN Returned(resolvedDependencies)
    ELSE
      LET dep == Head(dependencies)
          rest == Tail(dependencies)
      IN
        IF dep.className = UNDEFINED THEN Threw
        ELSE IF isPrimitiveType(dep.className) \/ dep.className = currentClassName
        THEN resolveLoopWithoutSeenCheck(rest, resolved, resolvedDependencies,
                                         currentClassName, classRegistry, file)
        ELSE
          LET baseType == trim(split(dep.className, "<")[1])
              dependencyInfo ==
                  resolveClassDependency(baseType, file.namespace, file.imports,
                                         classRegistry)
          IN  IF dependencyInfo = Null
              THEN resolveLoopWithoutSeenCheck(rest, resolved,
                       resolvedDependencies, currentClassName, classRegistry,
                       file)
              ELSE resolveLoopWithoutSeenCheck(rest, resolved \cup {baseType},
                       Append(resolvedDependencies, dependencyInfo),
                       currentClassName, classRegistry, file)

RECURSIVE resolveLoop(_, _, _, _, _, _)
\* the for loop of lines 418-443 over the candidates still to come, with the
\* resolved set and the resolvedDependencies list so far
resolveLoop(dependencies, resolved, resolvedDependencies, currentClassName, classRegistry, file) ==
    IF dependencies = <<>> THEN Returned(resolvedDependencies)
    ELSE
      LET dep == Head(dependencies)
          rest == Tail(dependencies)
      IN
        \* isPrimitiveType(undefined) calls split on undefined: a TypeError
        IF dep.className = UNDEFINED THEN Threw
        ELSE IF isPrimitiveType(dep.className) \/ dep.className = currentClassName
        THEN resolveLoop(rest, resolved, resolvedDependencies,
                         currentClassName, classRegistry, file)
        ELSE
          LET baseType == trim(split(dep.className, "<")[1])
              dependencyInfo ==
                  resolveClassDependency(baseType, file.namespace, file.imports,
                                         classRegistry)
          IN  IF baseType \in resolved \/ dependencyInfo = Null
              THEN resolveLoop(rest, resolved, resolvedDependencies,
                               currentClassName, classRegistry, file)
              ELSE resolveLoop(rest, resolved \cup {baseType},
                               Append(resolvedDependencies, dependencyInfo),
                               currentClassName, classRegistry, file)

\* resolveDependencies (lines 405-446); the parameters imports, currentNamespace
\* and classItem are not read by the body
resolveDependencies(dependencies, imports, currentNamespace, currentClassName, classRegistry, file, classItem) ==
    resolveLoop(dependencies, {}, <<>>, currentClassName, classRegistry, file)

RECURSIVE resolveClassesLoop(_, _, _, _, _)
\* the forEach of lines 231-247 over the classes from index k on; total is
\* the array being built, which is also what resolveDependencies is handed
resolveClassesLoop(filePath, file, classRegistry, k, total) ==
    IF k > Len(file.classes) THEN Returned(total)
    ELSE
      LET c == file.classes[k]
          deps == resolveDependencies(total, file.imports, file.namespace,
                                      c.className, classRegistry, file, c)
      IN  IF deps.threw THEN Threw
          ELSE resolveClassesLoop(filePath, file, classRegistry, k + 1,
                   Append(total, [className |-> c.className,
                                  filePath |-> filePath,
                                  namespace |-> file.namespace,
                                  projectName |-> file.projectName,
                                  dependencies |-> deps.value]))

\* resolveClassDependencies (lines 224-249)
resolveClassDependencies(filePath, file, classRegistry) ==
    resolveClassesLoop(filePath, file, classRegistry, 1, <<>>)

(***************************************************************************)
(* The type-tree parser (lines 581-606) and splitByTopLevelCommas          *)
(* (lines 694-719).                                                        *)
(***************************************************************************)
\* str.slice(a, b): a negative index counts from the end, both are clamped
slice(str, a, b) ==
    LET n == Len(str)
        from == IF a < 0 THEN (IF n + a < 0 THEN 0 ELSE n + a)
                ELSE (IF a > n THEN n ELSE a)
        to == IF b < 0 THEN (IF n + b < 0 THEN 0 ELSE n + b)
              ELSE (IF b > n THEN n ELSE b)
    IN  IF from >= to THEN "" ELSE SubSeq(str, from + 1, to)

\* str.endsWith(search)
endsWith(str, search) ==
    /\ Len(search) <= Len(str)
    /\ SubSeq(str, Len(str) - Len(search) + 1, Len(str)) = search

RECURSIVE splitCommasLoop(_, _, _, _, _)
\* the for loop of lines 699-712 at character i, with the parts pushed so far
splitCommasLoop(str, i, result, currentPart, angleBracketDepth) ==
    IF i >= Len(str)
    THEN IF trim(currentPart) # "" THEN Append(result, trim(currentPart))
         ELSE result
    ELSE LET char == charAt(str, i)
         IN  IF char = "<"
             THEN splitCommasLoop(str, i + 1, result, currentPart \o char,
                                  angleBracketDepth + 1)
             ELSE IF char = ">"
             THEN splitCommasLoop(str, i + 1, result, currentPart \o char,
                                  angleBracketDepth - 1)
             ELSE IF char = "," /\ angleBracketDepth = 0
             THEN splitCommasLoop(str, i + 1, Append(result, trim(currentPart)),
                                  "", angleBracketDepth)
             ELSE splitCommasLoop(str, i + 1, result, currentPart \o char,
                                  angleBracketDepth)

\* a splitter that ignores the angle-bracket depth: not the code's, it stands
\* in for splitByTopLevelCommas to show that C7 depends on the depth test
splitAtEveryComma(str) ==
    LET parts == split(str, ",") IN [k \in 1..Len(parts) |-> trim(parts[k])]

splitByTopLevelCommas(str) == splitCommasLoop(str, 0, <<>>, "", 0)

RECURSIVE recursiveParseType(_)
recursiveParseType(rawType) ==
    LET first == indexOf(rawType, "<")
        last == lastIndexOf(rawType, ">")
        genericParts == IF first >= 0
                        THEN splitByTopLevelCommas(slice(rawType, first + 1, last))
                        ELSE <<>>
        isTuple == startsWith(rawType, "(", 0) /\ endsWith(rawType, ")")
        tupleParts == IF isTuple
                      THEN splitByTopLevelCommas(slice(rawType, 1, Len(rawType) - 1))
                      ELSE <<>>
        subParts == genericParts \o tupleParts
    IN  [className |-> IF isTuple THEN "" ELSE trim(split(rawType, "<")[1]),
         namespace |-> "unknown",
         projectName |-> "external",
         subTypes |-> [k \in 1..Len(subParts) |-> recursiveParseType(subParts[k])]]

(***************************************************************************)
(* State.                                                                  *)
(***************************************************************************)
VARIABLES
    \* parseClassDependencies (lines 171-222)
    projectSourceFiles, \* the argument: a sequence of [projectName, sourceFiles]
    pass,               \* "first", "second" or "returned"
    cursor,             \* the file the running pass handles next (1-based)
    classRegistry,      \* the Map of lines 184-187
    classDependencies,  \* the array of line 181
    \* preParseText (lines 150-164) of the file being analysed in pass 2
    pc2,                \* "loop", "forEach" or "strip"
    noComments,         \* the array of lines 153-158
    lineIdx,            \* the forEach index of line 158 (0-based)
    \* stripRightComment (lines 132-145)
    line,               \* its argument
    sr_pc,              \* "idle", "entry", "test", "body" or "returned"
    sr_ret,             \* the returned string
    \* a call of one of the pure functions
    fn,                 \* the function called last, "none" before any call
    args,               \* its arguments
    ret,                \* its result
    \* history, read by the properties only
    attempted1,         \* the files pass 1 has handled, in order
    attempted2,         \* the files pass 2 has started on, in order
    failed1,            \* the files whose read failed in pass 1
    failed2,            \* the files whose read failed in pass 2
    stripped,           \* per file pass 2 finished: noComments after line 158
    registryAtBarrier,  \* the registry when pass 1 ended
    regLog,             \* every class registration so far, in order
    regCalls,           \* every registerClassesFromFile call so far, in order
    registryBefore      \* the registry before the latest of these calls

runVars == <<projectSourceFiles, pass, cursor, classDependencies>>
preVars == <<pc2, noComments, lineIdx>>
stripVars == <<line, sr_pc, sr_ret>>
callVars == <<fn, args, ret>>
passHist == <<attempted1, attempted2, failed1, failed2, stripped,
              registryAtBarrier>>
regHist == <<regLog, regCalls, registryBefore>>
vars == <<runVars, classRegistry, preVars, stripVars, callVars, passHist,
          regHist>>

(***************************************************************************)
(* stripRightComment (lines 132-145), one action per step of its loop.     *)
(* The outer `index` is declared once (line 136) and never assigned: the   *)
(* `let index` of line 138 declares a new variable in the loop body.       *)
(***************************************************************************)
outerIndex == 0

\* lines 133-136: the early return, or on to the loop
SR_Entry ==
    /\ sr_pc = "entry"
    /\ IF indexOf(line, "//") = -1
       THEN sr_pc' = "returned" /\ sr_ret' = line
       ELSE sr_pc' = "test" /\ sr_ret' = sr_ret
    /\ UNCHANGED <<line, runVars, classRegistry, preVars, callVars, passHist,
                   regHist>>

\* line 137: the loop condition, read on the outer index
SR_Test ==
    /\ sr_pc = "test"
    /\ IF outerIndex > -1 /\ outerIndex < Len(line) - 1
       THEN sr_pc' = "body" /\ sr_ret' = sr_ret
       ELSE sr_pc' = "returned" /\ sr_ret' = line
    /\ UNCHANGED <<line, runVars, classRegistry, preVars, callVars, passHist,
                   regHist>>

\* lines 138-141: one loop body
SR_Body ==
    /\ sr_pc = "body"
    /\ LET index == findNext(line, "/", STRING_BIT + CHAR_BIT, 0)
       IN  IF index # -1 /\ charAt(line, index + 1) = "/"
           THEN sr_pc' = "returned" /\ sr_ret' = substring(line, 0, index)
           ELSE sr_pc' = "test" /\ sr_ret' = sr_ret
    /\ UNCHANGED <<line, runVars, classRegistry, preVars, callVars, passHist,
                   regHist>>

(***************************************************************************)
(* The lines stripRightComment is checked on.                              *)
(***************************************************************************)
MaxLineLen == 5
LineAlphabet == {"a", "/", "\"", "'"}

RECURSIVE StringsUpTo(_, _)
StringsUpTo(alphabet, n) ==
    IF n = 0 THEN {""}
    ELSE LET shorter == StringsUpTo(alphabet, n - 1)
         IN  shorter \cup {s \o c : s \in shorter, c \in alphabet}

\* the values of the variables a specification does not use
IdleRun ==
    /\ projectSourceFiles = <<>>
    /\ pass = "returned"
    /\ cursor = 1
    /\ classDependencies = <<>>
    /\ attempted1 = <<>>
    /\ attempted2 = <<>>
    /\ failed1 = {}
    /\ failed2 = {}
    /\ stripped = <<>>
    /\ registryAtBarrier = EmptyMap

IdlePre == pc2 = "loop" /\ noComments = <<>> /\ lineIdx = 0
IdleStrip == line = "" /\ sr_pc = "idle" /\ sr_ret = ""
IdleCall == fn = "none" /\ args = <<>> /\ ret = <<>>
IdleRegHist == regLog = <<>> /\ regCalls = <<>> /\ registryBefore = EmptyMap

StripInit ==
    /\ line \in StringsUpTo(LineAlphabet, MaxLineLen)
    /\ sr_pc = "entry"
    /\ sr_ret = ""
    /\ classRegistry = EmptyMap
    /\ IdleRun /\ IdlePre /\ IdleCall /\ IdleRegHist

StripNext == SR_Entry \/ SR_Test \/ SR_Body

SpecStrip == StripInit /\ [][StripNext]_vars

\* the loop steps are steps of a running call: each is taken when it can be
SpecStripFair == SpecStrip /\ WF_vars(StripNext)

(***************************************************************************)
(* C8.  What the comment stripper is said to return.                       *)
(***************************************************************************)
RECURSIVE CountBefore(_, _, _)
\* how many times the character q occurs in str before 0-based index i
CountBefore(str, q, i) ==
    IF i <= 0 THEN 0
    ELSE CountBefore(str, q, i - 1) + (IF charAt(str, i - 1) = q THEN 1 ELSE 0)

\* index i is outside every string literal and every character literal
OutsideLiterals(str, i) ==
    /\ CountBefore(str, "\"", i) % 2 = 0
    /\ CountBefore(str, "'", i) % 2 = 0

\* the indices at which a comment marker outside all literals starts
OutsideMarkers(str) ==
    {i \in 0..(Len(str) - 1) : startsWith(str, "//", i) /\ OutsideLiterals(str, i)}

SetMin(S) == CHOOSE m \in S : \A x \in S : m <= x

\* the line truncated at its first marker outside all literals, else the line
StrippedLine(str) ==
    IF OutsideMarkers(str) = {} THEN str
    ELSE substring(str, 0, SetMin(OutsideMarkers(str)))

\* whenever stripRightComment returns, it returns what C8 describes
SR_ReturnsStripped == sr_pc = "returned" => sr_ret = StrippedLine(line)

\* C8: stripRightComment(line) returns for every line, and what it returns is
\* the line truncated at its first comment marker outside all literals (the
\* line itself when it has no such marker)
C8_StripReturnsTruncated ==
    /\ [](sr_pc = "returned" => sr_ret = StrippedLine(line))
    /\ <>(sr_pc = "returned")

(***************************************************************************)
(* The files and projects of the model.                                    *)
(***************************************************************************)
Projects == {"P1", "P2"}
Paths == {"a.cs", "b.cs", "c.cs"}

\* what readFile(path, "utf8") yields when it succeeds
Disk ==
    [path \in Paths |->
        CASE path = "a.cs" -> "namespace App;\nclass Foo{\nBar b;//x\n}\nclass Bar{}"
          [] path = "b.cs" -> "class Foo{}"
          [] path = "c.cs" -> "namespace Lib;\nclass Bar{\nstring s=\"//\";\n}"]

Contents == {Disk[path] : path \in Paths}

(***************************************************************************)
(* Registrations in any order: registerClassesFromFile called on any file  *)
(* for any project.                                                        *)
(***************************************************************************)
MaxRegistrations == 3

\* the class/namespace/project triples a call registers, in order
RegisteredTriples(content, projectName) ==
    LET classNames == classExecAll(content, 0)
    IN  [k \in 1..Len(classNames) |->
            [className |-> classNames[k],
             namespace |-> namespaceExec(content, 0),
             projectName |-> projectName]]

\* registerClassesFromFile(content, projectName, classRegistry) is called
Register ==
    /\ Len(regCalls) < MaxRegistrations
    /\ \E content \in Contents, projectName \in Projects :
         /\ classRegistry' =
                registerClassesFromFile(content, projectName, classRegistry)
         /\ regLog' = regLog \o RegisteredTriples(content, projectName)
         /\ regCalls' = Append(regCalls, [content |-> content,
                                          projectName |-> projectName])
         /\ registryBefore' = classRegistry
    /\ UNCHANGED <<runVars, preVars, stripVars, callVars, passHist>>

RegisterInit ==
    /\ classRegistry = EmptyMap
    /\ IdleRun /\ IdlePre /\ IdleStrip /\ IdleCall /\ IdleRegHist

RegisterNext == Register

SpecRegister == RegisterInit /\ [][RegisterNext]_vars

(***************************************************************************)
(* C6.  The registry keeps, per key, the latest registration.              *)
(***************************************************************************)
\* the keys a registration of a triple writes
KeysOf(triple) ==
    {triple.className}
    \cup (IF triple.namespace # ""
          THEN {triple.namespace \o "." \o triple.className} ELSE {})

\* the registrations that wrote key, by their position in the log
WritersOf(key) == {i \in 1..Len(regLog) : key \in KeysOf(regLog[i])}

SetMax(S) == CHOOSE m \in S : \A x \in S : m >= x

\* the names and contexts resolution is probed with
ProbeNames == {"Foo", "Bar", "App.Foo", "Lib.Bar", "Widget"}
ProbeNamespaces == {"", "App", "Lib"}

\* the latest call repeated the call before it
RepeatedCall ==
    /\ Len(regCalls) >= 2
    /\ regCalls[Len(regCalls)] = regCalls[Len(regCalls) - 1]

\* C6: every registry key maps to the {namespace, projectName} of the most
\* recent registration that wrote it (the bare name, and namespace.name when
\* the namespace is not empty), and registering the same file of the same
\* project again right away changes neither the registry nor any resolution
C6_LastRegistrationWins ==
    /\ DOMAIN classRegistry = UNION {KeysOf(regLog[i]) : i \in 1..Len(regLog)}
    /\ \A key \in DOMAIN classRegistry :
         LET last == regLog[SetMax(WritersOf(key))]
         IN  classRegistry[key] = [namespace |-> last.namespace,
                                   projectName |-> last.projectName]
    /\ RepeatedCall =>
         /\ classRegistry = registryBefore
         /\ \A name \in ProbeNames, ns \in ProbeNamespaces :
              resolveClassDependency(name, ns, <<"Lib">>, classRegistry)
              = resolveClassDependency(name, ns, <<"Lib">>, registryBefore)

\* two projects declared a namespace-less Foo, P1 first and P2 after it, P2's
\* registration was repeated, and the bare key points at P2
C6_Witness ==
    /\ Len(regCalls) = 3
    /\ regCalls[1] = [content |-> Disk["b.cs"], projectName |-> "P1"]
    /\ regCalls[2] = [content |-> Disk["b.cs"], projectName |-> "P2"]
    /\ RepeatedCall
    /\ classRegistry["Foo"] = [namespace |-> "", projectName |-> "P2"]

(***************************************************************************)
(* Calls of the resolver functions, on registries pass 1 can build: one    *)
(* call per behaviour, made from the state in which none was made yet.     *)
(***************************************************************************)
RegistryApp == registerClassesFromFile(Disk["a.cs"], "P1", EmptyMap)
RegistryAppLib == registerClassesFromFile(Disk["c.cs"], "P2", RegistryApp)
RegistryAll == registerClassesFromFile(Disk["b.cs"], "P2", RegistryAppLib)
Registries == {EmptyMap, RegistryApp, RegistryAppLib, RegistryAll}

BaseTypes ==
    {"", "Foo", "Bar", "Widget", "App.Bar", "Lib.Bar", "Lib.Foo", "App.",
     "external.Widget", "a.b.C"}
Namespaces == {"", "App", "Lib", "Other"}
ImportLists == {<<>>, <<"Lib">>, <<"App", "Lib">>, <<"Lib", "App">>}

\* the candidates resolveDependencies is called with
MaxCandidates == 3
CandidateNames == {"", "int", "Foo", "Bar", "Bar<int>", "List<Bar>", "Lib.Bar"}
Candidate(name) ==
    [className |-> name, namespace |-> "unknown", projectName |-> "external"]

RECURSIVE SeqsUpTo(_, _)
SeqsUpTo(S, n) ==
    IF n = 0 THEN {<<>>}
    ELSE LET shorter == SeqsUpTo(S, n - 1)
         IN  shorter \cup {Append(s, x) : s \in shorter, x \in S}

\* the namespace and imports of the file the owning class is in
FileContexts ==
    {[namespace |-> "", imports |-> <<>>],
     [namespace |-> "App", imports |-> <<"Lib">>]}

\* the classes of a parsed file, with the references the extractor found
TypeOf(rawType) == recursiveParseType(rawType)
NoReferences ==
    [inheritances |-> <<>>, constructors |-> <<>>, functions |-> <<>>,
     variables |-> <<>>, lines |-> <<>>, staticCalls |-> <<>>]
\* class Foo : Base { private List<Bar> items; public Bar Make() { return new Bar(); } }
ClassFoo ==
    [NoReferences EXCEPT
        !.inheritances = <<TypeOf("Base")>>,
        !.variables = <<TypeOf("List<Bar>")>>,
        !.functions = <<[returnType |-> <<TypeOf("Bar")>>, parameters |-> <<>>]>>,
        !.lines = <<TypeOf("Bar")>>]
    @@ [className |-> "Foo"]
\* class Bar { }
ClassBar == NoReferences @@ [className |-> "Bar"]
\* class Baz { external.Widget w; }
ClassBaz ==
    [NoReferences EXCEPT !.variables = <<TypeOf("external.Widget")>>]
    @@ [className |-> "Baz"]

MaxClasses == 2
ClassLists ==
    {cs \in SeqsUpTo({ClassFoo, ClassBar, ClassBaz}, MaxClasses) :
        /\ cs # <<>>
        /\ \A i, j \in 1..Len(cs) : i # j => cs[i] # cs[j]}
ParsedFiles ==
    {[namespace |-> ctx.namespace, imports |-> ctx.imports,
      projectName |-> "P1", classes |-> cs] :
        ctx \in FileContexts, cs \in ClassLists}

CallResolveClassDependency ==
    /\ fn = "none"
    /\ \E baseType \in BaseTypes, currentNamespace \in Namespaces,
          imports \in ImportLists :
         /\ fn' = "resolveClassDependency"
         /\ args' = [baseType |-> baseType,
                     currentNamespace |-> currentNamespace,
                     imports |-> imports]
         /\ ret' = resolveClassDependency(baseType, currentNamespace, imports,
                                          classRegistry)
    /\ UNCHANGED <<runVars, classRegistry, preVars, stripVars, passHist, regHist>>

CallResolveDependencies ==
    /\ fn = "none"
    /\ \E names \in SeqsUpTo(CandidateNames, MaxCandidates),
          currentClassName \in {"Foo", "Bar"}, ctx \in FileContexts :
         LET dependencies == [k \in 1..Len(names) |-> Candidate(names[k])]
             file == [namespace |-> ctx.namespace, imports |-> ctx.imports,
                      projectName |-> "P1", classes |-> <<>>]
         IN  /\ fn' = "resolveDependencies"
             /\ args' = [dependencies |-> dependencies,
                         currentClassName |-> currentClassName,
                         file |-> file]
             /\ ret' = resolveDependencies(dependencies, file.imports,
                           file.namespace, currentClassName, classRegistry,
                           file, ClassBar)
    /\ UNCHANGED <<runVars, classRegistry, preVars, stripVars, passHist, regHist>>

CallResolveClassDependencies ==
    /\ fn = "none"
    /\ \E file \in ParsedFiles, filePath \in Paths :
         /\ fn' = "resolveClassDependencies"
         /\ args' = [filePath |-> filePath, file |-> file]
         /\ ret' = resolveClassDependencies(filePath, file, classRegistry)
    /\ UNCHANGED <<runVars, classRegistry, preVars, stripVars, passHist, regHist>>

ResolveInit ==
    /\ classRegistry \in Registries
    /\ IdleRun /\ IdlePre /\ IdleStrip /\ IdleCall /\ IdleRegHist

ResolveNext ==
    \/ CallResolveClassDependency
    \/ CallResolveDependencies
    \/ CallResolveClassDependencies

SpecResolve == ResolveInit /\ [][ResolveNext]_vars

(***************************************************************************)
(* C1.  The candidates of a class are its own references.                  *)
(***************************************************************************)
RECURSIVE Flatten(_)
\* the concatenation of a sequence of sequences
Flatten(seqs) == IF seqs = <<>> THEN <<>> ELSE Head(seqs) \o Flatten(Tail(seqs))

\* the type references extracted for class c, gathered in the order of 4.7:
\* inheritance, constructor and method parameter and return types, field and
\* property types, instantiations, static-call targets
OwnReferences(c) ==
    c.inheritances
    \o Flatten([k \in 1..Len(c.constructors) |-> c.constructors[k].parameters])
    \o Flatten([k \in 1..Len(c.functions) |->
                   c.functions[k].parameters \o c.functions[k].returnType])
    \o c.variables
    \o c.lines
    \o c.staticCalls

\* the dependency list 4.7 describes for class c of file
OwnDependencies(file, c) ==
    resolveDependencies(OwnReferences(c), file.imports, file.namespace,
                        c.className, classRegistry, file, c).value

\* C1: resolveClassDependencies resolves, for every class of the file, the
\* class's own extracted type references into its dependency list
C1_CandidatesAreOwnReferences ==
    fn = "resolveClassDependencies" =>
        /\ ~ret.threw
        /\ Len(ret.value) = Len(args.file.classes)
        /\ \A k \in 1..Len(args.file.classes) :
             ret.value[k].dependencies
             = OwnDependencies(args.file, args.file.classes[k])

(***************************************************************************)
(* C9.  resolveDependencies keeps one entry per accepted base name.        *)
(***************************************************************************)
\* the text of a type name before its first <, trimmed
BaseNameOf(name) ==
    LET i == indexOf(name, "<")
    IN  trim(IF i = -1 THEN name ELSE substring(name, 0, i))

RECURSIVE Ascending(_)
\* a finite set of integers as an increasing sequence
Ascending(S) ==
    IF S = {} THEN <<>> ELSE <<SetMin(S)>> \o Ascending(S \ {SetMin(S)})

\* the positions of the candidates whose entry the result keeps: neither
\* primitive nor the owning class nor empty-named, and the first of their
\* base name among these
KeptPositions(dependencies, currentClassName) ==
    LET Accepted(k) ==
            /\ ~isPrimitiveType(dependencies[k].className)
            /\ dependencies[k].className # currentClassName
            /\ BaseNameOf(dependencies[k].className) # ""
    IN  {k \in 1..Len(dependencies) :
            /\ Accepted(k)
            /\ \A j \in 1..(k - 1) :
                 Accepted(j) => BaseNameOf(dependencies[j].className)
                                # BaseNameOf(dependencies[k].className)}

\* C9: the list resolveDependencies returns holds, in candidate order, the
\* resolution of the first candidate of each distinct base name among the
\* candidates that are not primitive, not the owning class and not empty-named
C9_OneEntryPerBaseName ==
    fn = "resolveDependencies" =>
        LET kept == Ascending(KeptPositions(args.dependencies,
                                            args.currentClassName))
        IN  ret = Returned(
                [i \in 1..Len(kept) |->
                    resolveClassDependency(
                        BaseNameOf(args.dependencies[kept[i]].className),
                        args.file.namespace, args.file.imports, classRegistry)])

\* a generic Bar, the owning class and a plain Bar were the candidates, and
\* the one entry kept is the first Bar's
C9_Witness ==
    /\ fn = "resolveDependencies"
    /\ args.currentClassName = "Foo"
    /\ [k \in 1..Len(args.dependencies) |-> args.dependencies[k].className]
       = <<"Bar<int>", "Foo", "Bar">>
    /\ args.file.namespace = "App"
    /\ classRegistry = RegistryApp
    /\ ret.value = <<[className |-> "Bar", namespace |-> "App",
                      projectName |-> "P1"]>>

(***************************************************************************)
(* C10.  Dotted names are looked up as they stand.                         *)
(***************************************************************************)
\* C10: for a base name with a dot, resolveClassDependency returns the last
\* segment as className with the namespace and project of the registry entry
\* under the full name, or, without such an entry, with the text before the
\* last dot as namespace and project "external", whatever the current
\* namespace and the imports are
C10_DottedNameLookup ==
    (fn = "resolveClassDependency" /\ includes(args.baseType, ".")) =>
        LET dot == lastIndexOf(args.baseType, ".")
            lastSegment == substring(args.baseType, dot + 1, Len(args.baseType))
        IN  /\ ret # Null
            /\ ret = IF args.baseType \in DOMAIN classRegistry
                     THEN [className |-> lastSegment,
                           namespace |-> classRegistry[args.baseType].namespace,
                           projectName |->
                               classRegistry[args.baseType].projectName]
                     ELSE [className |-> lastSegment,
                           namespace |-> substring(args.baseType, 0, dot),
                           projectName |-> "external"]

\* Lib.Bar was resolved from a file of namespace App that imports App: the
\* entry under Lib.Bar was used although App.Bar and Bar are registered too
C10_Witness ==
    /\ fn = "resolveClassDependency"
    /\ args.baseType = "Lib.Bar"
    /\ args.currentNamespace = "App"
    /\ args.imports = <<"App", "Lib">>
    /\ classRegistry = RegistryAll
    /\ ret = [className |-> "Bar", namespace |-> "Lib", projectName |-> "P2"]

(***************************************************************************)
(* C11.  Names without a dot: the current namespace, then the imports.     *)
(***************************************************************************)
\* the result for the registry entry under key
EntryUnder(name, key) ==
    [className |-> name,
     namespace |-> classRegistry[key].namespace,
     projectName |-> classRegistry[key].projectName]

\* the positions of the imports under which name is registered
ImportHits(name, imports) ==
    {i \in 1..Len(imports) : (imports[i] \o "." \o name) \in DOMAIN classRegistry}

\* the entry under ownKey if there is one, else that of the first import
\* declaring the name, else unknown/external, and nothing for the empty name
NamespaceThenImports(name, ownKey, imports) ==
    IF ownKey \in DOMAIN classRegistry THEN EntryUnder(name, ownKey)
    ELSE IF ImportHits(name, imports) # {}
    THEN EntryUnder(name,
                    imports[SetMin(ImportHits(name, imports))] \o "." \o name)
    ELSE IF name # ""
    THEN [className |-> name, namespace |-> "unknown",
          projectName |-> "external"]
    ELSE Null

\* a call of resolveClassDependency on a name without a dot
UnqualifiedCall ==
    fn = "resolveClassDependency" /\ ~includes(args.baseType, ".")

\* C11: for a name without a dot the result is the registry entry under
\* <current namespace>.<name> if present, else the entry of the first import
\* with <import>.<name> present, else unknown/external for a non-empty name
\* and nothing for the empty name
C11_NamespaceThenImports ==
    UnqualifiedCall =>
        ret = NamespaceThenImports(
                  args.baseType,
                  args.currentNamespace \o "." \o args.baseType,
                  args.imports)

\* C11 as amended: the key tried first is <current namespace>.<name> when
\* the current namespace is not empty and the bare <name> when it is empty
C11_OwnKeyThenImports ==
    UnqualifiedCall =>
        ret = NamespaceThenImports(
                  args.baseType,
                  IF args.currentNamespace # ""
                  THEN args.currentNamespace \o "." \o args.baseType
                  ELSE args.baseType,
                  args.imports)

\* Bar was resolved from namespace Other, which does not declare it, with
\* the imports Lib and App, which both do: the entry is that of Lib
C11_Witness ==
    /\ UnqualifiedCall
    /\ args.baseType = "Bar"
    /\ args.currentNamespace = "Other"
    /\ args.imports = <<"Lib", "App">>
    /\ classRegistry = RegistryAll
    /\ ret = [className |-> "Bar", namespace |-> "Lib", projectName |-> "P2"]

(***************************************************************************)
(* Registrations followed by one resolution: registerClassesFromFile is    *)
(* called on any files for any projects, then resolveClassDependency is    *)
(* called on the registry they built.                                      *)
(***************************************************************************)
RegisterBeforeCall == fn = "none" /\ Register

LookupNext == RegisterBeforeCall \/ CallResolveClassDependency

SpecLookup == RegisterInit /\ [][LookupNext]_vars

(***************************************************************************)
(* C14.  A file without namespace resolves a bare name to its latest       *)
(* registration.                                                           *)
(***************************************************************************)
\* the registrations of a class called name, by their position in the log
RegistrationsOf(name) == {i \in 1..Len(regLog) : regLog[i].className = name}

\* an unqualified name was resolved for a file that declares no namespace
NamespacelessCall == UnqualifiedCall /\ args.currentNamespace = ""

\* C14: for a file without namespace and a name without dot, when a class of
\* that name was registered the result is the most recent such registration
\* (its namespace and projectName) whatever the imports are; only when none
\* was registered do the imports decide, and then the unknown/external entry
\* (nothing for the empty name)
C14_BareKeyBeforeImports ==
    NamespacelessCall =>
        IF RegistrationsOf(args.baseType) # {}
        THEN LET last == regLog[SetMax(RegistrationsOf(args.baseType))]
             IN  ret = [className |-> args.baseType,
                        namespace |-> last.namespace,
                        projectName |-> last.projectName]
        ELSE ret = IF ImportHits(args.baseType, args.imports) # {}
                   THEN EntryUnder(args.baseType,
                                   args.imports[SetMin(ImportHits(args.baseType,
                                                                  args.imports))]
                                   \o "." \o args.baseType)
                   ELSE IF args.baseType # ""
                        THEN [className |-> args.baseType,
                              namespace |-> "unknown",
                              projectName |-> "external"]
                        ELSE Null

\* a.cs (namespace App, declares Bar) was registered for P1, then c.cs
\* (namespace Lib, declares Bar) for P2; the file imports App first, and Bar
\* resolves to Lib/P2
C14_Witness ==
    /\ NamespacelessCall
    /\ regCalls = <<[content |-> Disk["a.cs"], projectName |-> "P1"],
                    [content |-> Disk["c.cs"], projectName |-> "P2"]>>
    /\ args.baseType = "Bar"
    /\ args.imports = <<"App", "Lib">>
    /\ "App.Bar" \in DOMAIN classRegistry
    /\ ret = [className |-> "Bar", namespace |-> "Lib", projectName |-> "P2"]

(***************************************************************************)
(* parseClassDependencies (lines 171-222).  The argument is a Map, iterated *)
(* in insertion order: a sequence of [projectName, sourceFiles] with        *)
(* distinct project names.  readFile either yields the file's text or      *)
(* rejects; the text of a path is the same in both passes.                 *)
(***************************************************************************)
MaxFiles == 2

RECURSIVE TotalFiles(_)
TotalFiles(mapping) ==
    IF mapping = <<>> THEN 0
    ELSE Len(Head(mapping).sourceFiles) + TotalFiles(Tail(mapping))

ProjectSourceFiles ==
    {mapping \in
        {<<>>}
        \cup {<<[projectName |-> p, sourceFiles |-> fs]>> :
                 p \in Projects, fs \in SeqsUpTo(Paths, MaxFiles)}
        \cup {<<[projectName |-> p, sourceFiles |-> fs],
                [projectName |-> q, sourceFiles |-> gs]>> :
                 p \in Projects, q \in Projects,
                 fs \in SeqsUpTo(Paths, MaxFiles),
                 gs \in SeqsUpTo(Paths, MaxFiles)} :
        /\ TotalFiles(mapping) <= MaxFiles
        /\ \A i, j \in 1..Len(mapping) :
             i # j => mapping[i].projectName # mapping[j].projectName}

RECURSIVE entries(_)
\* the (projectName, filePath) pairs in the order the nested for loops of
\* lines 189-190 and 202-203 visit them
entries(mapping) ==
    IF mapping = <<>> THEN <<>>
    ELSE [k \in 1..Len(Head(mapping).sourceFiles) |->
             [projectName |-> Head(mapping).projectName,
              filePath |-> Head(mapping).sourceFiles[k]]]
         \o entries(Tail(mapping))

\* the pair the running loop is at
currentEntry == entries(projectSourceFiles)[cursor]

\* lines 191-197: one iteration of the first pass on the file at the cursor;
\* a rejected read is caught and logged, and the loop goes on
FirstPassFile ==
    /\ pass = "first"
    /\ cursor <= Len(entries(projectSourceFiles))
    /\ \E readOk \in BOOLEAN :
         LET content == Disk[currentEntry.filePath]
             projectName == currentEntry.projectName
         IN  IF readOk
             THEN /\ classRegistry' = registerClassesFromFile(
                                         content, projectName, classRegistry)
                  /\ regLog' = regLog \o RegisteredTriples(content, projectName)
                  /\ regCalls' = Append(regCalls,
                                        [content |-> content,
                                         projectName |-> projectName])
                  /\ registryBefore' = classRegistry
                  /\ failed1' = failed1
             ELSE /\ failed1' = failed1 \cup {cursor}
                  /\ UNCHANGED <<classRegistry, regHist>>
    /\ attempted1' = Append(attempted1, cursor)
    /\ cursor' = cursor + 1
    /\ UNCHANGED <<projectSourceFiles, pass, classDependencies, preVars,
                   stripVars, callVars, attempted2, failed2, stripped,
                   registryAtBarrier>>

\* lines 199-202: the first loop is over, the second starts
StartSecondPass ==
    /\ pass = "first"
    /\ cursor > Len(entries(projectSourceFiles))
    /\ pass' = "second"
    /\ cursor' = 1
    /\ registryAtBarrier' = classRegistry
    /\ UNCHANGED <<projectSourceFiles, classDependencies, classRegistry,
                   preVars, stripVars, callVars, attempted1, attempted2,
                   failed1, failed2, stripped, regHist>>

\* lines 153-157: the lines of the text that are not a comment as a whole
RECURSIVE filterComments(_)
filterComments(lines) ==
    IF lines = <<>> THEN <<>>
    ELSE (IF startsWith(trim(Head(lines)), "//", 0)
             \/ startsWith(trim(Head(lines)), "#", 0)
          THEN <<>> ELSE <<Head(lines)>>)
         \o filterComments(Tail(lines))

\* a second pass that registers the classes of the file it reads, as a single
\* loop over the files would: not the code's, it stands in for SecondPassRead
\* to show that C3 depends on the second pass leaving the registry alone
SecondPassReadRegistering ==
    /\ pass = "second"
    /\ pc2 = "loop"
    /\ cursor <= Len(entries(projectSourceFiles))
    /\ \E readOk \in BOOLEAN :
         IF readOk
         THEN /\ noComments' =
                     filterComments(split(Disk[currentEntry.filePath], "\n"))
              /\ lineIdx' = 0
              /\ pc2' = "forEach"
              /\ classRegistry' = registerClassesFromFile(
                                     Disk[currentEntry.filePath],
                                     currentEntry.projectName, classRegistry)
              /\ UNCHANGED <<cursor, failed2>>
         ELSE /\ failed2' = failed2 \cup {cursor}
              /\ cursor' = cursor + 1
              /\ UNCHANGED <<preVars, classRegistry>>
    /\ attempted2' = Append(attempted2, cursor)
    /\ UNCHANGED <<projectSourceFiles, pass, classDependencies, stripVars,
                   callVars, attempted1, failed1, stripped, registryAtBarrier,
                   regHist>>

\* lines 204-206, 333, 153-157: the read of the second pass; a rejected read
\* is caught at line 215, a text enters extractClassesFromFile and
\* preParseText up to the forEach of line 158
SecondPassRead ==
    /\ pass = "second"
    /\ pc2 = "loop"
    /\ cursor <= Len(entries(projectSourceFiles))
    /\ \E readOk \in BOOLEAN :
         IF readOk
         THEN /\ noComments' =
                     filterComments(split(Disk[currentEntry.filePath], "\n"))
              /\ lineIdx' = 0
              /\ pc2' = "forEach"
              /\ UNCHANGED <<cursor, failed2>>
         ELSE /\ failed2' = failed2 \cup {cursor}
              /\ cursor' = cursor + 1
              /\ UNCHANGED preVars
    /\ attempted2' = Append(attempted2, cursor)
    /\ UNCHANGED <<projectSourceFiles, pass, classDependencies, classRegistry,
                   stripVars, callVars, attempted1, failed1, stripped,
                   registryAtBarrier, regHist>>

\* line 158: the forEach callback is entered for the next line
ForEachLine ==
    /\ pass = "second"
    /\ pc2 = "forEach"
    /\ lineIdx < Len(noComments)
    /\ line' = noComments[lineIdx + 1]
    /\ sr_pc' = "entry"
    /\ sr_ret' = ""
    /\ pc2' = "strip"
    /\ UNCHANGED <<runVars, classRegistry, noComments, lineIdx, callVars,
                   passHist, regHist>>

\* line 158: stripRightComment has returned, arr[i] is assigned
StripReturn ==
    /\ pass = "second"
    /\ pc2 = "strip"
    /\ sr_pc = "returned"
    /\ noComments' = [noComments EXCEPT ![lineIdx + 1] = sr_ret]
    /\ lineIdx' = lineIdx + 1
    /\ pc2' = "forEach"
    /\ line' = ""
    /\ sr_pc' = "idle"
    /\ sr_ret' = ""
    /\ UNCHANGED <<runVars, classRegistry, callVars, passHist, regHist>>

\* String.prototype.replaceAll called with a regular expression that lacks
\* the g flag, as /\/\*.*\*\// at line 159 does: a TypeError
replaceAllWithoutGlobalFlag(str) == Threw

\* preParseText from line 159 on, with the array the forEach has filled; the
\* replaceAll calls of lines 160-163 are not reached
preParseText(strippedLines) ==
    replaceAllWithoutGlobalFlag(join(strippedLines, ""))

\* extractClassesFromFile (lines 331-355) from the return of preParseText
\* on: its exception passes through line 333, lines 335-354 are not reached
extractClassesFromFile(strippedLines) == preParseText(strippedLines)

\* lines 159, 333, 206-217: the forEach is over; the rest of preParseText,
\* of extractClassesFromFile and of the loop body, with the catch of line 215
FinishFile ==
    /\ pass = "second"
    /\ pc2 = "forEach"
    /\ lineIdx >= Len(noComments)
    /\ LET rawFile == extractClassesFromFile(noComments)
           fileClasses == [classes |-> rawFile.value.classes,
                           imports |-> rawFile.value.imports,
                           namespace |-> rawFile.value.namespace,
                           projectName |-> currentEntry.projectName]
           resolved == resolveClassDependencies(currentEntry.filePath,
                                                fileClasses, classRegistry)
       IN  classDependencies' =
               IF rawFile.threw THEN classDependencies
               ELSE IF resolved.threw THEN classDependencies
               ELSE classDependencies \o resolved.value
    /\ stripped' = Append(stripped, noComments)
    /\ cursor' = cursor + 1
    /\ pc2' = "loop"
    /\ noComments' = <<>>
    /\ lineIdx' = 0
    /\ UNCHANGED <<projectSourceFiles, pass, classRegistry, stripVars,
                   callVars, attempted1, attempted2, failed1, failed2,
                   registryAtBarrier, regHist>>

\* line 221
Return ==
    /\ pass = "second"
    /\ pc2 = "loop"
    /\ cursor > Len(entries(projectSourceFiles))
    /\ pass' = "returned"
    /\ UNCHANGED <<projectSourceFiles, cursor, classDependencies,
                   classRegistry, preVars, stripVars, callVars, passHist,
                   regHist>>

Init ==
    /\ projectSourceFiles \in ProjectSourceFiles
    /\ pass = "first"
    /\ cursor = 1
    /\ classRegistry = EmptyMap
    /\ classDependencies = <<>>
    /\ attempted1 = <<>>
    /\ attempted2 = <<>>
    /\ failed1 = {}
    /\ failed2 = {}
    /\ stripped = <<>>
    /\ registryAtBarrier = EmptyMap
    /\ IdlePre /\ IdleStrip /\ IdleCall /\ IdleRegHist

Next ==
    \/ FirstPassFile
    \/ StartSecondPass
    \/ SecondPassRead
    \/ ForEachLine
    \/ SR_Entry
    \/ SR_Test
    \/ SR_Body
    \/ StripReturn
    \/ FinishFile
    \/ Return

Spec == Init /\ [][Next]_vars

\* parseClassDependencies is one running call whose reads complete: a step
\* it can take is taken
SpecFair == Spec /\ WF_vars(Next)

(***************************************************************************)
(* C2.  One record per declared class.                                     *)
(***************************************************************************)
\* the number of files of the input
FileCount == Len(entries(projectSourceFiles))

\* the records C2 describes for one file: one per class declaration, in order
DeclaredRecords(entry) ==
    LET content == Disk[entry.filePath]
        classNames == classExecAll(content, 0)
    IN  [k \in 1..Len(classNames) |->
            [className |-> classNames[k],
             namespace |-> namespaceExec(content, 0),
             projectName |-> entry.projectName,
             filePath |-> entry.filePath]]

RECURSIVE DeclaredRecordsFrom(_)
\* those of the files from position k on whose pass-2 read succeeded
DeclaredRecordsFrom(k) ==
    IF k > FileCount THEN <<>>
    ELSE (IF k \in failed2 THEN <<>>
          ELSE DeclaredRecords(entries(projectSourceFiles)[k]))
         \o DeclaredRecordsFrom(k + 1)

\* a record without its dependency list
RecordHead(record) ==
    [className |-> record.className, namespace |-> record.namespace,
     projectName |-> record.projectName, filePath |-> record.filePath]

\* C2: the list parseClassDependencies returns holds, in input order, one
\* record per class declaration of every file whose pass-2 read succeeded,
\* with the declared class name, the file's namespace, project and path
C2_OneRecordPerClass ==
    pass = "returned" =>
        [k \in 1..Len(classDependencies) |-> RecordHead(classDependencies[k])]
        = DeclaredRecordsFrom(1)

(***************************************************************************)
(* C3.  Pass 1 is over before pass 2 starts, and pass 2 writes no entry.   *)
(***************************************************************************)
RECURSIVE RegistryAfter(_)
\* the registry after the first n files, those whose pass-1 read failed left
\* out
RegistryAfter(n) ==
    IF n = 0 THEN EmptyMap
    ELSE IF n \in failed1 THEN RegistryAfter(n - 1)
    ELSE registerClassesFromFile(
             Disk[entries(projectSourceFiles)[n].filePath],
             entries(projectSourceFiles)[n].projectName,
             RegistryAfter(n - 1))

\* C3: no step of pass 2 is taken before pass 1 has handled every file of
\* every project, and from then on the registry is the one pass 1 ended with
C3_RegistryCompleteBeforeSecondPass ==
    /\ pass = "first" =>
         /\ attempted2 = <<>>
         /\ stripped = <<>>
         /\ pc2 = "loop" /\ sr_pc = "idle"
         /\ classDependencies = <<>>
    /\ pass # "first" =>
         /\ attempted1 = [k \in 1..FileCount |-> k]
         /\ registryAtBarrier = RegistryAfter(FileCount)
         /\ classRegistry = registryAtBarrier

\* pass 2 has analysed one file and read a second one of a two-file input
\* one of whose reads failed in pass 1, with a registry that is not empty
C3_Witness ==
    /\ pass = "second"
    /\ FileCount = 2
    /\ Len(stripped) = 1
    /\ Len(attempted2) = 2
    /\ failed1 # {}
    /\ classRegistry # EmptyMap

(***************************************************************************)
(* C4.  The run returns.                                                   *)
(***************************************************************************)
\* C4: for every input and every outcome of the reads, parseClassDependencies
\* eventually returns its list
C4_RunReturns == <>(pass = "returned")

(***************************************************************************)
(* C5.  A file whose read fails counts as absent.                          *)
(***************************************************************************)
\* the records the second pass appends for a file whose read succeeded
FileRecords(entry, registry) ==
    LET lines == filterComments(split(Disk[entry.filePath], "\n"))
        rawFile == extractClassesFromFile(
                       [k \in 1..Len(lines) |-> StrippedLine(lines[k])])
        resolved == resolveClassDependencies(
                        entry.filePath,
                        [classes |-> rawFile.value.classes,
                         imports |-> rawFile.value.imports,
                         namespace |-> rawFile.value.namespace,
                         projectName |-> entry.projectName],
                        registry)
    IN  IF rawFile.threw THEN <<>>
        ELSE IF resolved.threw THEN <<>>
        ELSE resolved.value

RECURSIVE RecordsFrom(_)
\* the records of a run over the files from position k on whose pass-2 read
\* succeeded
RecordsFrom(k) ==
    IF k > FileCount THEN <<>>
    ELSE (IF k \in failed2 THEN <<>>
          ELSE FileRecords(entries(projectSourceFiles)[k],
                           RegistryAfter(FileCount)))
         \o RecordsFrom(k + 1)

\* what a failed read leaves behind: the registry is the one of the files
\* read in pass 1, and a returned list is the one of the files read in pass 2
C5_ReadFailureIsolated ==
    /\ classRegistry = RegistryAfter(Len(attempted1))
    /\ pass = "returned" =>
         /\ attempted1 = [k \in 1..FileCount |-> k]
         /\ attempted2 = [k \in 1..FileCount |-> k]
         /\ classDependencies = RecordsFrom(1)

\* C5: a failed read changes nothing but the failing file's own share, every
\* other file is handled as in a run without the file, and the run completes
C5_FailedReadIsAbsence ==
    /\ [](C5_ReadFailureIsolated)
    /\ [](failed1 \cup failed2 # {} => <>(pass = "returned"))

(***************************************************************************)
(* recursiveParseType on its own (lines 581-606): the type expression is   *)
(* drawn by the initial state, the one action parses it.                   *)
(***************************************************************************)
MaxTypeLen == 4
TypeAlphabet == {"A", "<", ">", ",", " ", "(", ")"}
LongTypes ==
    {"Outer<A,B<C>>", "Dictionary<string, CustomClass>", "A<B<C,D>,E>",
     "Map<K, List<V>>", "(A,B<C>)", "A<B,C"}
TypeInputs == StringsUpTo(TypeAlphabet, MaxTypeLen) \cup LongTypes

CallRecursiveParseType ==
    /\ fn = "none"
    /\ fn' = "recursiveParseType"
    /\ ret' = recursiveParseType(args)
    /\ UNCHANGED <<args, runVars, classRegistry, preVars, stripVars, passHist,
                   regHist>>

ParseInit ==
    /\ args \in TypeInputs
    /\ fn = "none"
    /\ ret = <<>>
    /\ classRegistry = EmptyMap
    /\ IdleRun /\ IdlePre /\ IdleStrip /\ IdleRegHist

ParseNext == CallRecursiveParseType

SpecParse == ParseInit /\ [][ParseNext]_vars

(***************************************************************************)
(* C7.  The tree recursiveParseType builds.                                *)
(***************************************************************************)
\* the angle-bracket depth of str in front of index i
AngleDepth(str, i) == CountBefore(str, "<", i) - CountBefore(str, ">", i)

\* the indices of the commas of str at angle-bracket depth zero
TopLevelCommas(str) ==
    {p \in 0..(Len(str) - 1) : charAt(str, p) = "," /\ AngleDepth(str, p) = 0}

\* str cut at its depth-zero commas, the commas left out
TopLevelParts(str) ==
    LET cuts == Ascending(TopLevelCommas(str))
    IN  [k \in 1..(Len(cuts) + 1) |->
            substring(str,
                      IF k = 1 THEN 0 ELSE cuts[k - 1] + 1,
                      IF k = Len(cuts) + 1 THEN Len(str) ELSE cuts[k])]

\* the text between the first < and the last > of a generic expression
GenericArguments(str) ==
    substring(str, indexOf(str, "<") + 1, lastIndexOf(str, ">"))

\* a non-empty run of identifier characters and dots
IsTypeName(str) ==
    /\ str # ""
    /\ \A i \in 0..(Len(str) - 1) : charAt(str, i) \in WordChars \cup {"."}

RECURSIVE IsWellFormedGeneric(_)
\* Name<T1,...,Tn>, n >= 1, each Ti a name or a well-formed generic, white
\* space allowed around each Ti
IsWellFormedGeneric(str) ==
    /\ indexOf(str, "<") > 0
    /\ charAt(str, Len(str) - 1) = ">"
    /\ IsTypeName(substring(str, 0, indexOf(str, "<")))
    /\ LET inner == GenericArguments(str)
       IN  /\ \A i \in 0..Len(inner) : AngleDepth(inner, i) >= 0
           /\ AngleDepth(inner, Len(inner)) = 0
           /\ \A k \in DOMAIN TopLevelParts(inner) :
                LET part == trim(TopLevelParts(inner)[k])
                IN  IsTypeName(part) \/ IsWellFormedGeneric(part)

\* the node without children
LeafNode(name) ==
    [className |-> name, namespace |-> "unknown", projectName |-> "external",
     subTypes |-> <<>>]

RECURSIVE TypeTree(_)
\* the tree C7 describes for a name or a well-formed generic expression
TypeTree(str) ==
    IF ~includes(str, "<") THEN LeafNode(trim(str))
    ELSE [className |-> substring(str, 0, indexOf(str, "<")),
          namespace |-> "unknown",
          projectName |-> "external",
          subTypes |->
              [k \in DOMAIN TopLevelParts(GenericArguments(str)) |->
                  TypeTree(trim(TopLevelParts(GenericArguments(str))[k]))]]

\* C7: recursiveParseType returns a leaf named by the trimmed input for an
\* expression without < and (, and for a well-formed generic expression the
\* node named by the text before the first < whose children are, in order,
\* the parses of the parts between the first < and the last > cut at the
\* commas of angle-bracket depth zero
C7_ParsedTypeTree ==
    fn = "recursiveParseType" =>
        /\ (~includes(args, "<") /\ ~includes(args, "("))
               => ret = LeafNode(trim(args))
        /\ IsWellFormedGeneric(args) =>
               /\ ret.className = substring(args, 0, indexOf(args, "<"))
               /\ ret.subTypes
                  = [k \in DOMAIN TopLevelParts(GenericArguments(args)) |->
                        recursiveParseType(TopLevelParts(GenericArguments(args))[k])]
               /\ ret = TypeTree(args)

\* Outer<A,B<C>> was parsed: two children, the second with the one child C
C7_Witness ==
    /\ fn = "recursiveParseType"
    /\ args = "Outer<A,B<C>>"
    /\ ret.className = "Outer"
    /\ Len(ret.subTypes) = 2
    /\ ret.subTypes[1] = LeafNode("A")
    /\ ret.subTypes[2].className = "B"
    /\ ret.subTypes[2].subTypes = <<LeafNode("C")>>

(***************************************************************************)
(* C13.  The node recursiveParseType builds for a tuple.                   *)
(***************************************************************************)
\* the text between the outer parentheses of a tuple expression
TupleElements(str) == substring(str, 1, Len(str) - 1)

\* (T1,...,Tn), n >= 1, each Ti a name or a well-formed generic, white space
\* allowed around each Ti
IsTuple(str) ==
    /\ Len(str) >= 2
    /\ charAt(str, 0) = "("
    /\ charAt(str, Len(str) - 1) = ")"
    /\ \A k \in DOMAIN TopLevelParts(TupleElements(str)) :
         LET part == trim(TopLevelParts(TupleElements(str))[k])
         IN  IsTypeName(part) \/ IsWellFormedGeneric(part)

\* C13: for a tuple recursiveParseType returns the node with the empty name
\* whose children are, in order, the parses of the parts between the outer
\* parentheses cut at the commas of angle-bracket depth zero, one child per
\* element and no other child
C13_TupleChildrenAreElements ==
    (fn = "recursiveParseType" /\ IsTuple(args)) =>
        /\ ret.className = ""
        /\ ret.subTypes
           = [k \in DOMAIN TopLevelParts(TupleElements(args)) |->
                 TypeTree(trim(TopLevelParts(TupleElements(args))[k]))]

\* what holds of a tuple: the children are the elements when no element is
\* generic, and otherwise the elements come after the parses of the text
\* between the first < and the last > of the whole expression
TupleOfNamesParsed ==
    (fn = "recursiveParseType" /\ IsTuple(args) /\ ~includes(args, "<")) =>
        /\ ret.className = ""
        /\ ret.subTypes
           = [k \in DOMAIN TopLevelParts(TupleElements(args)) |->
                 LeafNode(trim(TopLevelParts(TupleElements(args))[k]))]

TupleWithGenericParsed ==
    (fn = "recursiveParseType" /\ args = "(A,B<C>)") =>
        ret.subTypes
        = <<LeafNode("C"), LeafNode("A"),
            [className |-> "B", namespace |-> "unknown",
             projectName |-> "external", subTypes |-> <<LeafNode("C")>>]>>

(***************************************************************************)
(* findNext on its own (lines 671-689): the string, the target, the mask   *)
(* and the start index are drawn by the initial state, the one action      *)
(* scans.                                                                  *)
(***************************************************************************)
MaxScanLen == 3
ALL == 63
ScanAlphabet == {"x", "(", ")", "<", "\""}
ScanTargets == {"x", ")", "<", "\""}
ScanMasks ==
    {0, ANGLE, ROUND, STRING_BIT, ANGLE + ROUND, ROUND + STRING_BIT,
     STRING_BIT + CHAR_BIT, ALL}

CallFindNext ==
    /\ fn = "none"
    /\ fn' = "findNext"
    /\ ret' = findNext(args.str, args.search, args.ignore, args.startIndex)
    /\ UNCHANGED <<args, runVars, classRegistry, preVars, stripVars, passHist,
                   regHist>>

FindInit ==
    /\ args \in {[str |-> str, search |-> search, ignore |-> ignore,
                  startIndex |-> startIndex] :
                     str \in StringsUpTo(ScanAlphabet, MaxScanLen),
                     search \in ScanTargets,
                     ignore \in ScanMasks,
                     startIndex \in 0..MaxScanLen}
    /\ args.startIndex <= Len(args.str)
    /\ fn = "none"
    /\ ret = <<>>
    /\ classRegistry = EmptyMap
    /\ IdleRun /\ IdlePre /\ IdleStrip /\ IdleRegHist

FindNext == CallFindNext

SpecFind == FindInit /\ [][FindNext]_vars

(***************************************************************************)
(* C12.  The index findNext returns.                                       *)
(***************************************************************************)
\* the occurrences of character c in str from index start up to and with i
CountIn(str, c, start, i) ==
    CountBefore(str, c, i + 1) - CountBefore(str, c, start)

\* the bracket kinds with the bit that tracks each
BracketKinds ==
    {[bit |-> ANGLE, open |-> "<", close |-> ">"],
     [bit |-> ROUND, open |-> "(", close |-> ")"],
     [bit |-> BOX, open |-> "[", close |-> "]"],
     [bit |-> CURLY, open |-> "{", close |-> "}"]}

\* the quote kinds with the bit that tracks each
QuoteKinds ==
    {[bit |-> STRING_BIT, quote |-> "\""], [bit |-> CHAR_BIT, quote |-> "'"]}

\* every tracked counter and every tracked toggle, counted from start, is
\* zero at index i
EveryTrackedZero(str, mask, start, i) ==
    /\ \A kind \in BracketKinds :
         HasBit(mask, kind.bit) =>
             CountIn(str, kind.open, start, i)
             = CountIn(str, kind.close, start, i)
    /\ \A kind \in QuoteKinds :
         HasBit(mask, kind.bit) => CountIn(str, kind.quote, start, i) % 2 = 0

\* the indices from start on at which the target occurs outside every
\* tracked construct
QualifyingIndices(str, target, mask, start) ==
    {i \in start..(Len(str) - 1) :
        /\ startsWith(str, target, i)
        /\ EveryTrackedZero(str, mask, start, i)}

\* C12: findNext returns the smallest index from start on at which the
\* target occurs with every tracked counter and every tracked toggle,
\* counted from start, at zero, and -1 when there is no such index
C12_FirstIndexOutsideTracked ==
    fn = "findNext" =>
        LET found == QualifyingIndices(args.str, args.search, args.ignore,
                                       args.startIndex)
        IN  ret = IF found = {} THEN -1 ELSE SetMin(found)

\* what the scan does return: the smallest index from start on at which the
\* target occurs with the tracked counters and toggles adding up to zero
SumOfTracked(str, mask, start, i) ==
    LET Depth(kind) == IF HasBit(mask, kind.bit)
                       THEN CountIn(str, kind.open, start, i)
                            - CountIn(str, kind.close, start, i)
                       ELSE 0
        Toggle(kind) == IF HasBit(mask, kind.bit)
                        THEN CountIn(str, kind.quote, start, i) % 2
                        ELSE 0
    IN  Depth([bit |-> ANGLE, open |-> "<", close |-> ">"])
        + Depth([bit |-> ROUND, open |-> "(", close |-> ")"])
        + Depth([bit |-> BOX, open |-> "[", close |-> "]"])
        + Depth([bit |-> CURLY, open |-> "{", close |-> "}"])
        + Toggle([bit |-> STRING_BIT, quote |-> "\""])
        + Toggle([bit |-> CHAR_BIT, quote |-> "'"])

FindNextReturnsFirstSumZero ==
    fn = "findNext" =>
        LET found == {i \in args.startIndex..(Len(args.str) - 1) :
                         /\ startsWith(args.str, args.search, i)
                         /\ SumOfTracked(args.str, args.ignore,
                                         args.startIndex, i) = 0}
        IN  ret = IF found = {} THEN -1 ELSE SetMin(found)

====
